---- MODULE Spec2Model ----
(***************************************************************************)
(* Verification model of hey-aliens / simulateFRBclassification.           *)
(*                                                                         *)
(*   extract_spectra.py : fil2spec, chop_off, remove_extras, main script   *)
(*   simulated_NN.py    : get_classification_results, confusion_mat,       *)
(*                        SimulatedFRB, make_labels                        *)
(*                                                                         *)
(* Each part of the program has its own specification over the shared      *)
(* variables; a specification leaves the variables of the other parts at   *)
(* their idle values.                                                      *)
(***************************************************************************)
EXTENDS Integers, Sequences, FiniteSets, TLC

VARIABLES
    \* ---- extract_spectra.py, main script and fil2spec
    files,              \* glob result: the set of filterbank files in the directory
    num_samples,        \* args.num_samples
    pcMain,             \* position of the main script
    spectra_samples,    \* main's list of samples (the list object fil2spec appends to)
    freq,               \* frequencies returned by the last fil2spec call
    rand_filename,      \* file picked for the current fil2spec call
    pcScan,             \* position inside fil2spec
    finished_scanning,  \* fil2spec local
    timestep,           \* fil2spec local
    spectra_array,      \* fil2spec parameter: the same list object as spectra_samples
    error,              \* str(error) of the AssertionError last caught, or NoError
    saved,              \* what np.savez wrote, or NotSaved
    \* ---- one call of a function taken on its own
    args,               \* the arguments of the call
    pcCall,             \* "ready", "returned" or the exception raised
    result,             \* the value returned, or NoResult
    drawn,              \* what the call drew from the random generator
    \* ---- simulated_NN.py, one SimulatedFRB object and its caller
    ctorArgs,           \* the arguments SimulatedFRB(...) is called with
    pcFRB,              \* "new", "constructed", or the exception __init__ raised
    self,               \* the attributes of the object
    lastCall,           \* the method called last, how it ended and what it returned
    \* ---- simulated_NN.py, make_labels
    labelArgs,          \* num_data and SNRmin
    pcLabels,           \* position inside make_labels
    sim,                \* loop variable
    ftdata, labels, SNR_values

scanVars == <<files, num_samples, pcMain, spectra_samples, freq, rand_filename,
              pcScan, finished_scanning, timestep, spectra_array, error, saved>>

callVars == <<args, pcCall, result, drawn>>

frbVars == <<ctorArgs, pcFRB, self, lastCall>>

labelVars == <<labelArgs, pcLabels, sim, ftdata, labels, SNR_values>>

vars == <<scanVars, callVars, frbVars, labelVars>>

(***************************************************************************)
(* Bounds of the model.                                                    *)
(***************************************************************************)
MaxFileLen == 2     \* longest filterbank file, in waterfall read units
MaxSpectra == 3     \* list entries tracked exactly; see AppendTracked
MaxSamples == 2     \* largest --num_samples

(***************************************************************************)
(* Filterbank files and the external waterfall() call.                     *)
(* A file holds len readable units.  faultAt is the offset at which the    *)
(* library fails one of its own assertions that carry a message (-1: the   *)
(* file reads cleanly).  A read whose start lies at or past the end of the *)
(* data fails the library's bare assert, whose message is empty.           *)
(***************************************************************************)
NoFile == [len |-> -1, faultAt |-> -1]
NoError == "<no exception>"
NotSaved == <<"not saved">>
NoResult == <<"no result">>

IdleCall == args = <<>> /\ pcCall = "idle" /\ result = NoResult /\ drawn = <<>>

IdleScan ==
    /\ files = {} /\ num_samples = 0 /\ pcMain = "idle" /\ spectra_samples = <<>>
    /\ freq = NoFile /\ rand_filename = NoFile /\ pcScan = "idle"
    /\ finished_scanning = FALSE /\ timestep = 0 /\ spectra_array = <<>>
    /\ error = NoError /\ saved = NotSaved

IdleFRB == ctorArgs = <<>> /\ pcFRB = "idle" /\ self = <<>> /\ lastCall = <<>>

IdleLabels ==
    /\ labelArgs = <<>> /\ pcLabels = "idle" /\ sim = 0
    /\ ftdata = <<>> /\ labels = <<>> /\ SNR_values = <<>>

FileUniverse == { f \in [len : 0..MaxFileLen, faultAt : -1..(MaxFileLen - 1)] :
                    f.faultAt < f.len }

Spectra(f, start) == [file |-> f, start |-> start]

waterfall(f, start) ==
    IF start >= f.len THEN [kind |-> "AssertionError", msg |-> "", spec |-> Spectra(f, -1)]
    ELSE IF start = f.faultAt
         THEN [kind |-> "AssertionError", msg |-> "library assertion failed",
               spec |-> Spectra(f, -1)]
         ELSE [kind |-> "ok", msg |-> NoError, spec |-> Spectra(f, start)]

\* list.append on a list the model tracks up to MaxSpectra entries: the list of a
\* scan that never ends grows without bound, and past MaxSpectra entries the model
\* keeps its first MaxSpectra entries only.
AppendTracked(list, x) ==
    IF Len(list) < MaxSpectra THEN Append(list, x) ELSE list

(***************************************************************************)
(* fil2spec (extract_spectra.py 19-45)                                     *)
(***************************************************************************)
\* the test of line 37 inverted
IsEndOfData_Inverted(msg) == msg # ""

\* line 37: the test that tells the end of the data from an unknown failure
IsEndOfData(msg) == msg = ""

\* lines 26-27: the loop test holds and the pass begins by setting timestep
ScanLoopTop ==
    /\ pcScan = "while" /\ ~finished_scanning
    /\ timestep' = 0
    /\ pcScan' = "try"
    /\ UNCHANGED <<files, num_samples, pcMain, spectra_samples, freq, rand_filename,
                   finished_scanning, spectra_array, error, saved>>
    /\ UNCHANGED <<callVars, frbVars, labelVars>>

\* lines 28-34: the read succeeds, the Spectra is appended, timestep is incremented
ScanReadOk ==
    /\ pcScan = "try"
    /\ LET r == waterfall(rand_filename, timestep)
       IN /\ r.kind = "ok"
          /\ spectra_array' = AppendTracked(spectra_array, r.spec)
          /\ spectra_samples' = spectra_array'
    /\ timestep' = timestep + 1
    /\ pcScan' = "while"
    /\ UNCHANGED <<files, num_samples, pcMain, freq, rand_filename,
                   finished_scanning, error, saved>>
    /\ UNCHANGED <<callVars, frbVars, labelVars>>

\* lines 28-39: the read fails the bare assert: the scan is over
ScanReadEnd ==
    /\ pcScan = "try"
    /\ LET r == waterfall(rand_filename, timestep)
       IN /\ r.kind = "AssertionError"
          /\ IsEndOfData(r.msg)
          /\ error' = r.msg
    /\ finished_scanning' = TRUE
    /\ pcScan' = "while"
    /\ UNCHANGED <<files, num_samples, pcMain, spectra_samples, freq, rand_filename,
                   timestep, spectra_array, saved>>
    /\ UNCHANGED <<callVars, frbVars, labelVars>>

\* lines 28-41: the read fails an assertion that has a message: ValueError
ScanReadFail ==
    /\ pcScan = "try"
    /\ LET r == waterfall(rand_filename, timestep)
       IN /\ r.kind = "AssertionError"
          /\ ~IsEndOfData(r.msg)
          /\ error' = r.msg
    /\ pcScan' = "ValueError"
    /\ pcMain' = "ValueError"       \* nothing catches it: the caller ends too
    /\ UNCHANGED <<files, num_samples, spectra_samples, freq, rand_filename,
                   finished_scanning, timestep, spectra_array, saved>>
    /\ UNCHANGED <<callVars, frbVars, labelVars>>

\* lines 26, 43-45 and main line 119: the loop test fails, fil2spec returns
ScanReturn ==
    /\ pcScan = "while" /\ finished_scanning
    /\ pcScan' = "returned"
    /\ freq' = rand_filename
    /\ spectra_samples' = spectra_array
    /\ pcMain' = "loop"
    /\ UNCHANGED <<files, num_samples, rand_filename, finished_scanning, timestep,
                   spectra_array, error, saved>>
    /\ UNCHANGED <<callVars, frbVars, labelVars>>

(***************************************************************************)
(* remove_extras (extract_spectra.py 67-76)                                *)
(***************************************************************************)
\* line 72
RemoveExtrasAssert(array, n) == n <= Len(array)

\* np.random.choice with replace=True
ChoicePositions_Replace(array, n) == [1..n -> 1..Len(array)]

\* line 73: np.random.choice(array, size=n, replace=False): every way of drawing
\* n positions of array without replacement, in the order drawn
ChoicePositions(array, n) ==
    { p \in [1..n -> 1..Len(array)] : \A i, j \in 1..n : i # j => p[i] # p[j] }

Leftovers(array, p) == [i \in DOMAIN p |-> array[p[i]]]

(***************************************************************************)
(* main script (extract_spectra.py 99-129)                                 *)
(***************************************************************************)
\* lines 99-103
MainGlob ==
    /\ pcMain = "start"
    /\ pcMain' = IF files = {} THEN "ValueError" ELSE "loop"
    /\ UNCHANGED <<files, num_samples, spectra_samples, freq, rand_filename, pcScan,
                   finished_scanning, timestep, spectra_array, error, saved>>
    /\ UNCHANGED <<callVars, frbVars, labelVars>>

\* lines 112-119 and 21-24: the loop test holds, a file is picked, fil2spec is entered
MainPick ==
    /\ pcMain = "loop"
    /\ Len(spectra_samples) < num_samples
    /\ \E f \in files :
         /\ rand_filename' = f
         /\ pcMain' = "fil2spec"
         /\ pcScan' = "while"
         /\ finished_scanning' = FALSE
         /\ spectra_array' = spectra_samples
         /\ error' = NoError
         /\ timestep' = 0
    /\ UNCHANGED <<files, num_samples, spectra_samples, freq, saved>>
    /\ UNCHANGED <<callVars, frbVars, labelVars>>

\* line 129 reads the name freq, which only line 119 binds
FreqIsBound == freq # NoFile

\* lines 112, 125-129: the loop ends, remove_extras and np.savez
MainRemove ==
    /\ pcMain = "loop"
    /\ ~(Len(spectra_samples) < num_samples)
    /\ IF RemoveExtrasAssert(spectra_samples, num_samples)
       THEN \E p \in ChoicePositions(spectra_samples, num_samples) :
               /\ spectra_samples' = Leftovers(spectra_samples, p)
               /\ IF FreqIsBound
                  THEN saved' = <<spectra_samples', freq>> /\ pcMain' = "saved"
                  ELSE saved' = saved /\ pcMain' = "NameError"
       ELSE /\ pcMain' = "AssertionError"
            /\ UNCHANGED <<spectra_samples, saved>>
    /\ UNCHANGED <<files, num_samples, freq, rand_filename, pcScan, finished_scanning,
                   timestep, spectra_array, error>>
    /\ UNCHANGED <<callVars, frbVars, labelVars>>

ScanInit ==
    /\ files \in SUBSET FileUniverse
    /\ num_samples \in 0..MaxSamples
    /\ pcMain = "start"
    /\ spectra_samples = <<>>
    /\ freq = NoFile
    /\ rand_filename = NoFile
    /\ pcScan = "idle"
    /\ finished_scanning = FALSE
    /\ timestep = 0
    /\ spectra_array = <<>>
    /\ error = NoError
    /\ saved = NotSaved
    /\ IdleCall /\ IdleFRB /\ IdleLabels

ScanNext ==
    \/ MainGlob
    \/ MainPick
    \/ ScanLoopTop
    \/ ScanReadOk
    \/ ScanReadEnd
    \/ ScanReadFail
    \/ ScanReturn
    \/ MainRemove

SpecScan == ScanInit /\ [][ScanNext]_vars

(***************************************************************************)
(* fil2spec called on its own: any file, any list of spectra gathered so   *)
(* far.                                                                    *)
(***************************************************************************)
PriorSpectra == { Spectra(f, 0) : f \in { g \in FileUniverse : g.len = MaxFileLen } }

PriorLists == UNION { [1..n -> PriorSpectra] : n \in 0..(MaxSpectra - 1) }

FilInit ==
    /\ files = {}
    /\ num_samples = 0
    /\ pcMain = "fil2spec"
    /\ spectra_samples \in PriorLists
    /\ spectra_array = spectra_samples
    /\ freq = NoFile
    /\ rand_filename \in FileUniverse
    /\ pcScan = "while"
    /\ finished_scanning = FALSE
    /\ timestep = 0
    /\ error = NoError
    /\ saved = NotSaved
    /\ IdleCall /\ IdleFRB /\ IdleLabels

FilNext ==
    \/ ScanLoopTop
    \/ ScanReadOk
    \/ ScanReadEnd
    \/ ScanReadFail
    \/ ScanReturn

SpecFil == FilInit /\ [][FilNext]_vars

\* The interpreter keeps running the function: a step that can be taken is taken.
FairSpecFil == FilInit /\ [][FilNext]_vars /\ WF_vars(FilNext)

(***************************************************************************)
(* C1: fil2spec terminates: on a file that reads cleanly up to its end,    *)
(* where a read past the end raises the empty AssertionError, the scanning *)
(* loop eventually sets finished_scanning and fil2spec returns.            *)
(***************************************************************************)
C1_ScanTerminates ==
    (pcScan = "while" /\ rand_filename.faultAt = -1)
        ~> (pcScan = "returned" /\ finished_scanning)

(***************************************************************************)
(* C2: an AssertionError caught in fil2spec is handled by its message.  An *)
(* empty message sets finished_scanning, leaves the list as it was, and    *)
(* fil2spec then returns that list; a non-empty message makes fil2spec     *)
(* raise ValueError, after which it never returns.                         *)
(***************************************************************************)
C2_HandledInv ==
    /\ error = "" => finished_scanning /\ pcScan \in {"while", "returned"}
    /\ error \notin {NoError, ""} => pcScan = "ValueError" /\ ~finished_scanning

C2_HandledStep ==
    /\ (error' = "" /\ error # "") => spectra_array' = spectra_array
    /\ (pcScan = "while" /\ finished_scanning) =>
           (pcScan' = "returned" /\ spectra_samples' = spectra_array)
    /\ pcScan = "ValueError" => pcScan' = "ValueError"
    /\ pcScan' = "returned" => error' = ""

C2_AssertionHandledByMessage == []C2_HandledInv /\ [][C2_HandledStep]_vars

\* an empty-message end with spectra already in the list, returned with them
C2_Witness ==
    /\ error = "" /\ pcScan = "returned"
    /\ Len(spectra_samples) > 0

(***************************************************************************)
(* remove_extras called on its own (extract_spectra.py 67-76).             *)
(***************************************************************************)
MaxArrayLen == 3    \* longest array handed to remove_extras
MaxAsked == 4       \* largest num_samples handed to remove_extras

SampleValues == {"a", "b"}

SampleArrays == UNION { [1..n -> SampleValues] : n \in 0..MaxArrayLen }

RemoveInit ==
    /\ args \in [array : SampleArrays, num_samples : 0..MaxAsked]
    /\ pcCall = "ready"
    /\ result = NoResult
    /\ drawn = <<>>
    /\ IdleScan /\ IdleFRB /\ IdleLabels

\* lines 72-76 with the assertion passing
RemoveExtrasReturn ==
    /\ pcCall = "ready"
    /\ RemoveExtrasAssert(args.array, args.num_samples)
    /\ \E p \in ChoicePositions(args.array, args.num_samples) :
         /\ drawn' = p
         /\ result' = Leftovers(args.array, p)
    /\ pcCall' = "returned"
    /\ UNCHANGED <<args, scanVars, frbVars, labelVars>>

\* line 72 with the assertion failing
RemoveExtrasRaise ==
    /\ pcCall = "ready"
    /\ ~RemoveExtrasAssert(args.array, args.num_samples)
    /\ pcCall' = "AssertionError"
    /\ UNCHANGED <<args, result, drawn, scanVars, frbVars, labelVars>>

RemoveNext == RemoveExtrasReturn \/ RemoveExtrasRaise

SpecRemove == RemoveInit /\ [][RemoveNext]_vars

(***************************************************************************)
(* C3: remove_extras(array, num_samples) returns exactly num_samples       *)
(* elements, taken from pairwise distinct positions of array, whenever     *)
(* num_samples <= len(array); when num_samples > len(array) it fails its   *)
(* assertion and returns nothing.                                          *)
(***************************************************************************)
C3_RemoveExtras ==
    /\ (pcCall = "ready" /\ args.num_samples <= Len(args.array)) =>
         ENABLED RemoveExtrasReturn
    /\ pcCall = "returned" =>
         /\ args.num_samples <= Len(args.array)
         /\ Len(result) = args.num_samples
         /\ Len(drawn) = args.num_samples
         /\ \A i \in 1..Len(result) :
              /\ drawn[i] \in 1..Len(args.array)
              /\ result[i] = args.array[drawn[i]]
         /\ \A i, j \in 1..Len(drawn) : i # j => drawn[i] # drawn[j]
    /\ pcCall = "AssertionError" =>
         /\ args.num_samples > Len(args.array)
         /\ result = NoResult

\* a proper sample: some but not all of an array with a repeated value
C3_Witness ==
    /\ pcCall = "returned"
    /\ Len(args.array) = 3 /\ args.num_samples = 2
    /\ args.array[1] = args.array[2]
    /\ drawn = <<3, 1>>

(***************************************************************************)
(* chop_off called on its own (extract_spectra.py 47-65).                  *)
(* An array is known by its shape (N, nchan, T); a piece of it by the      *)
(* range [lo, hi) of time bins it holds; a chunk of the result by the      *)
(* array of the stack it was cut from and its range of time bins.          *)
(***************************************************************************)
ChunkBins == 256    \* lines 55 and 59

MaxStack == 2       \* largest number N of arrays in the stack
MaxChan == 2        \* largest number of frequency channels
MaxBins == 600      \* largest number T of time bins

\* np.arange(start, stop, step), step > 0
Arange(start, stop, step) ==
    LET k == IF stop > start THEN ((stop - start - 1) \div step) + 1 ELSE 0
    IN  [i \in 1..k |-> start + (i - 1) * step]

\* np.split(array, subsections, axis=2) for increasing subsections below T
Split(T, subsections) ==
    LET k == Len(subsections)
    IN  [i \in 1..(k + 1) |->
            [lo |-> IF i = 1 THEN 0 ELSE subsections[i - 1],
             hi |-> IF i = k + 1 THEN T ELSE subsections[i]]]

Bins(piece) == piece.hi - piece.lo

\* lines 59-60
PopShort(split_array) ==
    IF Bins(split_array[Len(split_array)]) < ChunkBins
    THEN SubSeq(split_array, 1, Len(split_array) - 1)
    ELSE split_array

\* np.concatenate(split_array, axis=0) raises ValueError on an empty list and on
\* pieces whose other axes differ
ConcatenateFails(split_array) ==
    \/ split_array = <<>>
    \/ \E i, j \in 1..Len(split_array) : Bins(split_array[i]) # Bins(split_array[j])

\* np.concatenate(split_array, axis=0): the N arrays of the first piece, then the
\* N arrays of the second, ...
Concatenate(N, split_array) ==
    [c \in 1..(N * Len(split_array)) |->
        [from |-> ((c - 1) % N) + 1,
         lo |-> split_array[((c - 1) \div N) + 1].lo,
         hi |-> split_array[((c - 1) \div N) + 1].hi]]

\* lines 55-60
SplitArray(T) == PopShort(Split(T, Arange(ChunkBins, T, ChunkBins)))

ChopInit ==
    /\ args \in [shape : (0..MaxStack) \X (1..MaxChan) \X (0..MaxBins)]
    /\ pcCall = "ready"
    /\ result = NoResult
    /\ drawn = <<>>
    /\ IdleScan /\ IdleFRB /\ IdleLabels

\* lines 55-65
ChopOffReturn ==
    /\ pcCall = "ready"
    /\ ~ConcatenateFails(SplitArray(args.shape[3]))
    /\ result' = Concatenate(args.shape[1], SplitArray(args.shape[3]))
    /\ pcCall' = "returned"
    /\ UNCHANGED <<args, drawn, scanVars, frbVars, labelVars>>

\* lines 55-62, np.concatenate raising
ChopOffRaise ==
    /\ pcCall = "ready"
    /\ ConcatenateFails(SplitArray(args.shape[3]))
    /\ pcCall' = "ValueError"
    /\ UNCHANGED <<args, result, drawn, scanVars, frbVars, labelVars>>

ChopNext == ChopOffReturn \/ ChopOffRaise

SpecChop == ChopInit /\ [][ChopNext]_vars

(***************************************************************************)
(* C4: chop_off, given a stack of N arrays with T time bins each (any      *)
(* T >= 1), returns a stack in which every chunk has exactly 256 time bins *)
(* and which holds N * floor(T / 256) chunks; a trailing chunk of fewer    *)
(* than 256 bins is dropped.                                               *)
(***************************************************************************)
C4_ChopOffAnyT ==
    (pcCall # "ready" /\ args.shape[3] >= 1) =>
        /\ pcCall = "returned"
        /\ Len(result) = args.shape[1] * (args.shape[3] \div ChunkBins)
        /\ \A c \in 1..Len(result) :
             /\ result[c].hi - result[c].lo = ChunkBins
             /\ result[c].lo % ChunkBins = 0
             /\ result[c].hi <= args.shape[3]

(***************************************************************************)
(* get_classification_results and confusion_mat (simulated_NN.py 146-181), *)
(* called on their own with test_SNR=None.  Label arrays are sequences;    *)
(* index i of the program is position i + 1 of the sequence.               *)
(***************************************************************************)
MaxLabels == 3      \* longest y_true / y_pred

LabelValues == {0, 1, 2}

\* np.where(mask)[0]: the indices at which mask holds, in increasing order
RECURSIVE WhereFrom(_, _, _, _, _)
WhereFrom(y_true, y_pred, t, q, i) ==
    IF i >= Len(y_true) THEN <<>>
    ELSE IF y_true[i + 1] = t /\ y_pred[i + 1] = q
         THEN <<i>> \o WhereFrom(y_true, y_pred, t, q, i + 1)
         ELSE WhereFrom(y_true, y_pred, t, q, i + 1)

\* np.where((y_true == t) & (y_pred == q))[0]
Where(y_true, y_pred, t, q) == WhereFrom(y_true, y_pred, t, q, 0)

\* line 162 with y_pred == 1 in place of y_pred == 0
FalseNegatives_PredOne(y_true, y_pred) == Where(y_true, y_pred, 1, 1)

TruePositives(y_true, y_pred) == Where(y_true, y_pred, 1, 1)      \* line 159
FalsePositives(y_true, y_pred) == Where(y_true, y_pred, 0, 1)     \* line 160
TrueNegatives(y_true, y_pred) == Where(y_true, y_pred, 0, 0)      \* line 161
FalseNegatives(y_true, y_pred) == Where(y_true, y_pred, 1, 0)     \* line 162

\* lines 158-163: (true_positives, false_positives, true_negatives, false_negatives)
GetClassificationResults(y_true, y_pred) ==
    <<TruePositives(y_true, y_pred), FalsePositives(y_true, y_pred),
      TrueNegatives(y_true, y_pred), FalseNegatives(y_true, y_pred)>>

\* lines 173-181
ConfusionMat(y_true, y_pred) ==
    LET r == GetClassificationResults(y_true, y_pred)
        NTP == Len(r[1])
        NFP == Len(r[2])
        NTN == Len(r[3])
        NFN == Len(r[4])
    IN  <<<<NTP, NFP>>, <<NFN, NTN>>>>

ConfInit ==
    /\ \E n \in 0..MaxLabels :
         args \in [y_true : [1..n -> LabelValues], y_pred : [1..n -> LabelValues]]
    /\ pcCall = "ready"
    /\ result = NoResult
    /\ drawn = <<>>
    /\ IdleScan /\ IdleFRB /\ IdleLabels

GetClassificationResultsCall ==
    /\ pcCall = "ready"
    /\ result' = GetClassificationResults(args.y_true, args.y_pred)
    /\ pcCall' = "get_classification_results returned"
    /\ UNCHANGED <<args, drawn, scanVars, frbVars, labelVars>>

ConfusionMatCall ==
    /\ pcCall = "ready"
    /\ result' = ConfusionMat(args.y_true, args.y_pred)
    /\ pcCall' = "confusion_mat returned"
    /\ UNCHANGED <<args, drawn, scanVars, frbVars, labelVars>>

ConfNext == GetClassificationResultsCall \/ ConfusionMatCall

SpecConf == ConfInit /\ [][ConfNext]_vars

(***************************************************************************)
(* C5: for y_true and y_pred of equal length n with every entry in {0, 1}, *)
(* the four index sets returned by get_classification_results are pairwise *)
(* disjoint and together cover every index 0..n-1, and the four counts of  *)
(* confusion_mat, laid out [[TP, FP], [FN, TN]], sum to n.                 *)
(***************************************************************************)
Range(seq) == { seq[i] : i \in DOMAIN seq }

BinaryLabels ==
    \A i \in DOMAIN args.y_true : args.y_true[i] \in {0, 1} /\ args.y_pred[i] \in {0, 1}

CountOf(t, q) ==
    Cardinality({ i \in DOMAIN args.y_true : args.y_true[i] = t /\ args.y_pred[i] = q })

C5_ConfusionPartition ==
    BinaryLabels =>
        /\ pcCall = "get_classification_results returned" =>
             /\ \A a, b \in 1..4 : a # b => Range(result[a]) \cap Range(result[b]) = {}
             /\ UNION { Range(result[a]) : a \in 1..4 } = 0..(Len(args.y_true) - 1)
             /\ \A a \in 1..4 : Cardinality(Range(result[a])) = Len(result[a])
        /\ pcCall = "confusion_mat returned" =>
             /\ result[1][1] + result[1][2] + result[2][1] + result[2][2]
                    = Len(args.y_true)
             /\ result = <<<<CountOf(1, 1), CountOf(0, 1)>>,
                           <<CountOf(1, 0), CountOf(0, 0)>>>>

\* a confusion matrix with all four cells of different, known counts
C5_Witness ==
    /\ pcCall = "confusion_mat returned"
    /\ BinaryLabels
    /\ args.y_true = <<1, 0, 1>> /\ args.y_pred = <<1, 1, 0>>
    /\ result = <<<<1, 1>>, <<1, 0>>>>

(***************************************************************************)
(* SimulatedFRB (simulated_NN.py 211-346).                                 *)
(*                                                                         *)
(* An array is a record of its shape and its cells.  Noise and signal      *)
(* values are reals in the program; the model draws them from small sets   *)
(* of integers.  The object is a record of its attributes, `assigned`      *)
(* holding the names of the attributes __init__ has set so far; SNR and    *)
(* FRB are <<>> for None and <<v>> for a value v.  The FRB array is known  *)
(* by its shape and by how far np.roll has shifted it along the time axis. *)
(***************************************************************************)
MaxNchan == 3       \* largest shape[0] tried
MaxNbins == 5       \* largest shape[1] tried
MaxWidth == 3       \* largest max_width tried
NoiseSeeds == 2     \* number of noise arrays drawn per shape

DefaultFRef == 1350         \* line 216, f_ref
DefaultBandwidth == 1500    \* line 216, bandwidth
DefaultTau == <<1, 10>>     \* line 216, tau = 0.1
DefaultSNRmin == 8          \* line 319, SNRmin

FracTenths == {5, 6, 7, 8}  \* np.random.uniform(0.5, 0.9), in tenths
LogNormalDraws == {1, 3}    \* np.random.lognormal(mean=1.0, sigma=SNR_sigma)

Min(a, b) == IF a <= b THEN a ELSE b
Max(a, b) == IF a >= b THEN a ELSE b

\* Python's a // 2
FloorHalf(a) == IF a >= 0 THEN a \div 2 ELSE -((1 - a) \div 2)

NoArray == [shape |-> <<0, 0>>, cells |-> <<>>]

\* np.random.randint(low, high): the integers of [low, high), ValueError when empty
RandintFails(low, high) == low >= high
Randint(low, high) == low..(high - 1)

\* np.linspace(start, stop, num)
Linspace(start, stop, num) == [start |-> start, stop |-> stop, num |-> num]

\* np.random.randn(*shape)
Randn(shape) ==
    { [shape |-> shape,
       cells |-> [i \in 1..shape[1] |-> [j \in 1..shape[2] |-> ((i + j + s) % 3) - 1]]] :
      s \in 0..(NoiseSeeds - 1) }

\* np.array(a): a new array with the cells of a
CopyArray(a) == [shape |-> a.shape, cells |-> a.cells]

BlankObject ==
    [assigned |-> {}, shape |-> <<>>, f_ref |-> 0, max_width |-> 0, nt |-> 0,
     frequencies |-> Linspace(0, 0, 0), t0 |-> 0, tau |-> <<0, 1>>,
     SNR |-> <<>>, FRB |-> <<>>, background |-> NoArray]

\* line 217 without the test of the type
ShapeAssert_NoTypeCheck(shape) == Len(shape.items) = 2

\* line 217
ShapeAssert(shape) == shape.type = "tuple" /\ Len(shape.items) = 2

\* line 235: the bounds of np.random.randint(-shape[1] + max_width, shape[1] - max_width)
T0Low(shape, max_width) == -shape[2] + max_width
T0High(shape, max_width) == shape[2] - max_width

\* lines 220-232: the attributes set before t0 is drawn
InitUntilFrequencies(shape, max_width) ==
    [BlankObject EXCEPT
        !.assigned = {"shape", "f_ref", "max_width", "nt", "frequencies"},
        !.shape = shape,
        !.f_ref = DefaultFRef,
        !.max_width = max_width,
        !.nt = shape[2],
        !.frequencies = Linspace(DefaultFRef - DefaultBandwidth \div 2,
                                 DefaultFRef + DefaultBandwidth \div 2, shape[1])]

\* lines 235-247: the attributes set from t0 on
InitFromT0(obj, t0, background) ==
    [obj EXCEPT
        !.assigned = @ \cup {"t0", "tau", "SNR", "FRB", "background"},
        !.t0 = t0,
        !.tau = DefaultTau,
        !.SNR = <<>>,
        !.FRB = <<>>,
        !.background = background]

NoDraws == [frac |-> -1, wid |-> -1, st |-> -1, stch |-> -1, bin_shift |-> 0]

NoCall == [method |-> "none", outcome |-> "none", data |-> NoArray, snr |-> <<>>,
           draws |-> NoDraws]

\* SimulatedFRB.__init__ (lines 216-247)
Construct ==
    /\ pcFRB = "new"
    /\ LET shape == ctorArgs.shape
           mw    == ctorArgs.max_width
       IN IF ~ShapeAssert(shape)
          THEN pcFRB' = "AssertionError" /\ self' = self
          ELSE LET obj == InitUntilFrequencies(shape.items, mw)
               IN IF RandintFails(T0Low(shape.items, mw), T0High(shape.items, mw))
                  THEN pcFRB' = "ValueError" /\ self' = obj
                  ELSE \E t0 \in Randint(T0Low(shape.items, mw), T0High(shape.items, mw)),
                          bg \in Randn(shape.items) :
                          /\ self' = InitFromT0(obj, t0, bg)
                          /\ pcFRB' = "constructed"
    /\ UNCHANGED <<ctorArgs, lastCall, scanVars, callVars, labelVars>>

\* lines 249-258 and 268-280: what stops pulse_profile, if anything.
\* gaussian_profile draws np.random.randint(1, max_width); with no channel the
\* array built on line 276 has one axis and np.trapz(..., axis=1) has none to use.
PulseProfileError(obj) ==
    IF RandintFails(1, obj.max_width) THEN "ValueError"
    ELSE IF obj.shape[1] = 0 THEN "AxisError"
    ELSE "none"

\* lines 268-280: an array of shape (shape[0], nt), not shifted
PulseProfile(obj) == [shape |-> <<obj.shape[1], obj.nt>>, shift |-> 0]

\* line 305
ScintillateObj(obj) == [obj EXCEPT !.FRB = <<PulseProfile(obj)>>]

\* np.roll(a, bin_shift, axis=1) on an FRB array
NpRoll(frb, bin_shift) == [frb EXCEPT !.shift = (@ + bin_shift) % frb.shape[2]]

\* np.roll(a, bin_shift, axis=1) on an array of cells
NpRollCells(a, bin_shift) ==
    [a EXCEPT !.cells = [i \in 1..a.shape[1] |-> [j \in 1..a.shape[2] |->
                            a.cells[i][((j - 1 - bin_shift) % a.shape[2]) + 1]]]]

\* line 317 rolling the background in place of the FRB
RollObj_Background(obj, bin_shift) ==
    [obj EXCEPT !.background = NpRollCells(@, bin_shift)]

\* line 317
RollObj(obj, bin_shift) == [obj EXCEPT !.FRB = <<NpRoll(@[1], bin_shift)>>]

\* line 316 without the max_width margin
RollHigh_NoWidth(obj) == FloorHalf(obj.shape[2])

\* lines 315-316: the bounds of np.random.randint
RollLow(obj) == FloorHalf(-obj.shape[2]) + obj.max_width
RollHigh(obj) == FloorHalf(obj.shape[2]) - obj.max_width

\* lines 319-346 assign no attribute of self
AfterInject(obj, randomSNR) == obj

\* the number of indices a slice lo:hi selects on an axis of length n (0 <= lo, hi)
SliceLen(lo, hi, n) == Max(0, Min(hi, n) - Min(lo, n))

\* numpy broadcasting of two 2-D shapes
BroadcastFails(s, t) == \E d \in 1..2 : ~(s[d] = t[d] \/ s[d] = 1 \/ t[d] = 1)
Broadcast(s, t) == [d \in 1..2 |-> IF s[d] = 1 THEN t[d] ELSE s[d]]

\* assigning a value of shape v to a slice of shape target
SetItemFails(target, v) == \E d \in 1..2 : ~(v[d] = target[d] \/ v[d] = 1)

\* line 341: the bound of np.random.randint(0, nchan - nchan * frac), truncated
StchHigh(nchan, fracTenths) == (nchan * (10 - fracTenths)) \div 10

\* line 342: the rows stch : int(stch + nchan * frac)
StchStop(nchan, stch, fracTenths) == stch + (nchan * fracTenths) \div 10

\* line 342: data[rows, st:st + wid] = data[rows, st:st + wid] + signal fails when
\* the slice and the signal do not broadcast, or the sum does not fit the slice
InjectionFails(obj, stch, fracTenths, st, wid) ==
    LET nchan  == obj.shape[1]
        nbins  == obj.shape[2]
        slice  == <<SliceLen(stch, StchStop(nchan, stch, fracTenths), nchan),
                    SliceLen(st, st + wid, nbins)>>
        signal == PulseProfile(obj).shape
    IN  \/ BroadcastFails(slice, signal)
        \/ SetItemFails(slice, Broadcast(slice, signal))

\* line 342 when it succeeds: the signal is added to the cells of the slice
Injected(data, stch, stop, st, wid, peak) ==
    [data EXCEPT !.cells = [i \in 1..data.shape[1] |-> [j \in 1..data.shape[2] |->
        IF i - 1 >= stch /\ i - 1 < stop /\ j - 1 >= st /\ j - 1 < st + wid
        THEN data.cells[i][j] + peak
        ELSE data.cells[i][j]]]]

Ended(method, outcome, data, snr, draws) ==
    [method |-> method, outcome |-> outcome, data |-> data, snr |-> snr, draws |-> draws]

\* SimulatedFRB.scintillate (lines 282-306)
Scintillate ==
    /\ pcFRB = "constructed"
    /\ IF PulseProfileError(self) # "none"
       THEN /\ self' = self
            /\ lastCall' = Ended("scintillate", PulseProfileError(self), NoArray, <<>>,
                                 NoDraws)
       ELSE /\ self' = ScintillateObj(self)
            /\ lastCall' = Ended("scintillate", "returned", NoArray, <<>>, NoDraws)
    /\ UNCHANGED <<ctorArgs, pcFRB, scanVars, callVars, labelVars>>

\* SimulatedFRB.roll (lines 308-317)
Roll ==
    /\ pcFRB = "constructed"
    /\ IF self.FRB = <<>> /\ PulseProfileError(self) # "none"
       THEN /\ self' = self
            /\ lastCall' = Ended("roll", PulseProfileError(self), NoArray, <<>>, NoDraws)
       ELSE LET obj == IF self.FRB = <<>> THEN ScintillateObj(self) ELSE self
            IN IF RandintFails(RollLow(obj), RollHigh(obj))
               THEN /\ self' = obj
                    /\ lastCall' = Ended("roll", "ValueError", NoArray, <<>>, NoDraws)
               ELSE \E bin_shift \in Randint(RollLow(obj), RollHigh(obj)) :
                       /\ self' = RollObj(obj, bin_shift)
                       /\ lastCall' = Ended("roll", "returned", NoArray, <<>>,
                                            [NoDraws EXCEPT !.bin_shift = bin_shift])
    /\ UNCHANGED <<ctorArgs, pcFRB, scanVars, callVars, labelVars>>

\* SimulatedFRB.injectFRB (lines 319-346)
InjectFRB ==
    /\ pcFRB = "constructed"
    /\ \E fracTenths \in FracTenths :
        LET data   == CopyArray(self.background)
            nchan  == self.shape[1]
            nbins  == self.shape[2]
            d0     == [NoDraws EXCEPT !.frac = fracTenths]
        IN
        IF RandintFails(1, self.max_width)
        THEN /\ self' = self
             /\ lastCall' = Ended("injectFRB", "ValueError", NoArray, <<>>, d0)
        ELSE \E wid \in Randint(1, self.max_width) :
          IF nbins - wid < 0
          THEN /\ self' = self
               /\ lastCall' = Ended("injectFRB", "ValueError", NoArray, <<>>,
                                    [d0 EXCEPT !.wid = wid])
          ELSE \E st \in 0..(nbins - wid) :
            LET d2 == [d0 EXCEPT !.wid = wid, !.st = st]
            IN
            IF PulseProfileError(self) # "none"
            THEN /\ self' = self
                 /\ lastCall' = Ended("injectFRB", PulseProfileError(self), NoArray,
                                      <<>>, d2)
            ELSE IF RandintFails(0, StchHigh(nchan, fracTenths))
            THEN /\ self' = self
                 /\ lastCall' = Ended("injectFRB", "ValueError", NoArray, <<>>, d2)
            ELSE \E stch \in Randint(0, StchHigh(nchan, fracTenths)) :
              LET d3 == [d2 EXCEPT !.stch = stch]
              IN
              IF InjectionFails(self, stch, fracTenths, st, wid)
              THEN /\ self' = self
                   /\ lastCall' = Ended("injectFRB", "ValueError", NoArray, <<>>, d3)
              ELSE \E ln \in LogNormalDraws, returnSNR \in BOOLEAN :
                   LET randomSNR == DefaultSNRmin + ln
                   IN /\ self' = AfterInject(self, randomSNR)
                      /\ lastCall' = Ended("injectFRB", "returned",
                                           Injected(data, stch,
                                                    StchStop(nchan, stch, fracTenths),
                                                    st, wid, randomSNR),
                                           IF returnSNR THEN <<randomSNR>> ELSE <<>>,
                                           d3)
    /\ UNCHANGED <<ctorArgs, pcFRB, scanVars, callVars, labelVars>>

ShapeItems ==
    { <<c, b>> : c \in 0..MaxNchan, b \in 0..MaxNbins }
        \cup { <<b>> : b \in 0..MaxNbins }
        \cup { <<c, b, b>> : c \in 0..MaxNchan, b \in 0..MaxNbins }

ShapeArgs == [type : {"tuple", "list"}, items : ShapeItems]

FRBInit ==
    /\ ctorArgs \in [shape : ShapeArgs, max_width : 1..MaxWidth]
    /\ pcFRB = "new"
    /\ self = BlankObject
    /\ lastCall = NoCall
    /\ IdleScan /\ IdleCall /\ IdleLabels

FRBNext == Construct \/ Scintillate \/ Roll \/ InjectFRB

SpecFRB == FRBInit /\ [][FRBNext]_vars

(***************************************************************************)
(* C6: for a SimulatedFRB constructed with shape (nchan, nbins), every     *)
(* call to injectFRB returns a data array whose shape equals the           *)
(* background's shape, for every choice of wid, st, stch and frac (stated   *)
(* of the calls in which all four were drawn).                             *)
(***************************************************************************)
C6_InjectKeepsShape ==
    (lastCall.method = "injectFRB" /\ lastCall.draws.stch >= 0) =>
        /\ lastCall.outcome = "returned"
        /\ lastCall.data.shape = self.background.shape

(***************************************************************************)
(* C8: the background array is element for element the same before and     *)
(* after any sequence of injectFRB, scintillate and roll calls: no call on *)
(* a constructed object changes self.background.                           *)
(***************************************************************************)
C8_BackgroundStep == pcFRB = "constructed" => self'.background = self.background

IsTwoTuple == ctorArgs.shape.type = "tuple" /\ Len(ctorArgs.shape.items) = 2

\* the claim as stated
C9_TwoTupleAlwaysConstructs ==
    pcFRB # "new" =>
        /\ ~IsTwoTuple => pcFRB = "AssertionError" /\ self.assigned = {}
        /\ IsTwoTuple =>
             /\ pcFRB = "constructed"
             /\ self.background.shape = ctorArgs.shape.items

\* C9 as amended: a 2-tuple passes the assertion and self.shape is set; the
\* construction completes, with a background of that shape, exactly when
\* shape[1] > max_width; otherwise line 235 raises ValueError with t0, tau, SNR,
\* FRB and background still unset.
C9_ConstructorAssertion ==
    pcFRB # "new" =>
        /\ ~IsTwoTuple => pcFRB = "AssertionError" /\ self = BlankObject
        /\ IsTwoTuple =>
             /\ pcFRB \in {"constructed", "ValueError"}
             /\ "shape" \in self.assigned
             /\ self.shape = ctorArgs.shape.items
             /\ pcFRB = "constructed" <=> ctorArgs.shape.items[2] > ctorArgs.max_width
             /\ pcFRB = "constructed" =>
                  /\ self.assigned = {"shape", "f_ref", "max_width", "nt", "frequencies",
                                      "t0", "tau", "SNR", "FRB", "background"}
                  /\ self.background.shape = ctorArgs.shape.items
             /\ pcFRB = "ValueError" =>
                  self.assigned \cap {"t0", "tau", "SNR", "FRB", "background"} = {}

\* a completed construction
C9_Witness ==
    /\ pcFRB = "constructed"
    /\ ctorArgs.shape = [type |-> "tuple", items |-> <<3, 5>>]
    /\ ctorArgs.max_width = 3
    /\ self.background.shape = <<3, 5>>

(***************************************************************************)
(* make_labels (simulated_NN.py 383-407).                                  *)
(***************************************************************************)
MaxNumData == 4     \* largest num_data
MaxSNRmin == 10     \* largest SNRmin

\* the names simulated_NN.py binds at module level (imports on lines 3-47, defs and
\* the class on lines 50-383); a call of any other name raises NameError
ModuleNames ==
    {"sys", "os", "np", "gaussian", "fftconvolve", "time", "h5py", "random", "tqdm",
     "argparse", "tf", "glob", "matplotlib", "plt", "gridspec", "keras", "Sequential",
     "Dense", "Dropout", "Flatten", "Merger", "Conv1D", "Conv2D", "MaxPooling2D",
     "MaxPooling1D", "GlobalAveragePooling1D", "BatchNormalization", "SGD", "Adam",
     "load_model", "construct_conv2d", "get_classification_results", "confusion_mat",
     "print_metric", "SimulatedFRB", "psr2np", "make_labels"}

LabelsInit ==
    /\ labelArgs \in [num_data : 0..MaxNumData, SNRmin : 0..MaxSNRmin]
    /\ pcLabels = "loop"
    /\ sim = 0
    /\ ftdata = <<>>
    /\ labels = <<>>
    /\ SNR_values = <<>>
    /\ IdleScan /\ IdleCall /\ IdleFRB

\* lines 392-405: one pass of the loop
MakeLabelsBody ==
    /\ pcLabels = "loop"
    /\ sim < labelArgs.num_data
    /\ IF "simulate_background" \notin ModuleNames
       THEN /\ pcLabels' = "NameError"
            /\ UNCHANGED <<sim, ftdata, labels, SNR_values>>
       ELSE LET fake_noise == [made_by |-> "simulate_background", sim |-> sim]
            IN IF "gaussianFRB" \notin ModuleNames
               THEN /\ pcLabels' = "NameError"
                    /\ ftdata' = Append(ftdata, fake_noise)
                    /\ labels' = Append(labels, 0)
                    /\ UNCHANGED <<sim, SNR_values>>
               ELSE \E ln \in LogNormalDraws :
                    LET frb_array == [made_by |-> "gaussianFRB", sim |-> sim]
                        SNR == labelArgs.SNRmin + ln
                    IN /\ ftdata' = ftdata \o <<fake_noise, frb_array>>
                       /\ labels' = labels \o <<0, 1>>
                       /\ SNR_values' = SNR_values \o <<SNR, SNR>>
                       /\ sim' = sim + 1
                       /\ pcLabels' = "loop"
    /\ UNCHANGED <<labelArgs, scanVars, callVars, frbVars>>

\* lines 392, 407: the loop is exhausted
MakeLabelsReturn ==
    /\ pcLabels = "loop"
    /\ sim >= labelArgs.num_data
    /\ pcLabels' = "returned"
    /\ UNCHANGED <<labelArgs, sim, ftdata, labels, SNR_values, scanVars, callVars,
                   frbVars>>

LabelsNext == MakeLabelsBody \/ MakeLabelsReturn

SpecLabels == LabelsInit /\ [][LabelsNext]_vars

(***************************************************************************)
(* C7: make_labels(num_data, SNRmin) returns ftdata, labels and SNR_values *)
(* of length 2 * num_data, with labels[2k] = 0 and labels[2k+1] = 1 for    *)
(* every k in 0..num_data-1, and SNR_values[2k] = SNR_values[2k+1].        *)
(***************************************************************************)
C7_MakeLabelsPairs ==
    pcLabels # "loop" =>
        /\ pcLabels = "returned"
        /\ Len(ftdata) = 2 * labelArgs.num_data
        /\ Len(labels) = 2 * labelArgs.num_data
        /\ Len(SNR_values) = 2 * labelArgs.num_data
        /\ \A k \in 0..(labelArgs.num_data - 1) :
             /\ labels[2 * k + 1] = 0
             /\ labels[2 * k + 2] = 1
             /\ SNR_values[2 * k + 1] = SNR_values[2 * k + 2]

(***************************************************************************)
(* pulse_profile in exact arithmetic (simulated_NN.py 249-280).            *)
(*                                                                         *)
(* The profiles are rows of reals in the program.  Here the Gaussian row   *)
(* is a row of positive integer levels (line 254-255 keeps it positive),   *)
(* a scattering row is a row of integer levels that starts at its maximum  *)
(* ScatMax (line 266 divides by the maximum, reached at t = 0) and      *)
(* never increases, and a normalized value is a fraction <<num, den>>.     *)
(***************************************************************************)
MaxPulseChan == 2   \* largest number of channels
MaxPulseBins == 3   \* largest nt
GausLevels == {1, 2}        \* values of the Gaussian row
ScatLevels == {0, 1, 2}     \* values of a scattering row
\* its maximum: 1.0 after line 266
ScatMax == CHOOSE m \in ScatLevels : \A x \in ScatLevels : x <= m

RECURSIVE SumTo(_, _)
SumTo(f, n) == IF n = 0 THEN 0 ELSE f[n] + SumTo(f, n - 1)

\* fftconvolve(g, h): the full linear convolution, of length len(g) + len(h) - 1
Convolve(g, h) ==
    [n \in 1..(Len(g) + Len(h) - 1) |->
        SumTo([k \in 1..Len(g) |->
                  IF n - k + 1 >= 1 /\ n - k + 1 <= Len(h) THEN g[k] * h[n - k + 1] ELSE 0],
              Len(g))]

\* a[:nt]
Truncate(a, nt) == SubSeq(a, 1, Min(nt, Len(a)))

\* twice np.trapz(row): the sum of row[j] + row[j+1] over adjacent bins
Trapz2(row) == SumTo([j \in 1..(Len(row) - 1) |-> row[j] + row[j + 1]], Len(row) - 1)

\* row / np.trapz(row), each value as the fraction <<2 * row[j], 2 * trapz>>
DivideByTrapz(row) == [j \in 1..Len(row) |-> <<2 * row[j], Trapz2(row)>>]

\* lines 276-279 with the normalization done before the cut to nt bins
PulseRow_NormalizeFirst(g, h, nt) == Truncate(DivideByTrapz(Convolve(g, h)), nt)

\* lines 276-279 for one channel
PulseRow(g, h, nt) == DivideByTrapz(Truncate(Convolve(g, h), nt))

\* gaussian_profile (lines 249-258): one row, repeated for every channel
GaussianRows(nt) == [1..nt -> GausLevels]

\* scatter_profile (lines 260-266): one row per channel
ScatterRows(nt) ==
    { h \in [1..nt -> ScatLevels] :
        /\ h[1] = ScatMax
        /\ \A j \in 1..(nt - 1) : h[j + 1] <= h[j] }

PulseInit ==
    /\ args \in [shape : (1..MaxPulseChan) \X (3..MaxPulseBins)]
    /\ pcCall = "ready"
    /\ result = NoResult
    /\ drawn = <<>>
    /\ IdleScan /\ IdleFRB /\ IdleLabels

\* SimulatedFRB.pulse_profile (lines 268-280)
PulseProfileCall ==
    /\ pcCall = "ready"
    /\ LET nchan == args.shape[1]
           nt    == args.shape[2]
       IN \E g \in GaussianRows(nt), scat \in [1..nchan -> ScatterRows(nt)] :
            /\ drawn' = [gaus_prof |-> [i \in 1..nchan |-> g], scat_prof |-> scat]
            /\ result' = [i \in 1..nchan |-> PulseRow(g, scat[i], nt)]
    /\ pcCall' = "returned"
    /\ UNCHANGED <<args, scanVars, frbVars, labelVars>>

PulseNext == PulseProfileCall

SpecPulse == PulseInit /\ [][PulseNext]_vars

(***************************************************************************)
(* C10: pulse_profile returns, for every frequency channel, a profile      *)
(* whose trapezoidal integral over the time axis equals 1.                 *)
(***************************************************************************)
RECURSIVE Gcd(_, _)
Gcd(a, b) == IF b = 0 THEN a ELSE Gcd(b, a % b)

Reduced(q) == LET d == Gcd(q[1], q[2]) IN <<q[1] \div d, q[2] \div d>>

RatAdd(p, q) == Reduced(<<p[1] * q[2] + q[1] * p[2], p[2] * q[2]>>)

RatHalf(q) == Reduced(<<q[1], 2 * q[2]>>)

RECURSIVE RatTrapzTo(_, _)
RatTrapzTo(row, n) ==
    IF n = 0 THEN <<0, 1>>
    ELSE RatAdd(RatTrapzTo(row, n - 1), RatHalf(RatAdd(row[n], row[n + 1])))

\* np.trapz of a row of fractions
RatTrapz(row) == RatTrapzTo(row, Len(row) - 1)

C10_UnitArea ==
    pcCall = "returned" =>
        /\ Len(result) = args.shape[1]
        /\ \A i \in 1..Len(result) :
             /\ Len(result[i]) = args.shape[2]
             /\ \A j \in 1..Len(result[i]) : result[i][j][2] > 0
             /\ RatTrapz(result[i]) = <<1, 1>>

\* two channels with different scattering rows, the pulse cut off by [:nt]
C10_Witness ==
    /\ pcCall = "returned"
    /\ args.shape = <<2, 3>>
    /\ drawn.gaus_prof[1] = <<1, 2, 1>>
    /\ drawn.scat_prof[1] = <<2, 1, 0>>
    /\ drawn.scat_prof[2] = <<2, 2, 1>>
    /\ result[1] = <<<<4, 16>>, <<10, 16>>, <<8, 16>>>>
    /\ result[2] = <<<<4, 21>>, <<12, 21>>, <<14, 21>>>>

(***************************************************************************)
(* C11: in fil2spec, timestep is incremented after each successful         *)
(* waterfall read and the next read is issued at the incremented value, so *)
(* within one file the k-th read has start = k - 1: the start offsets      *)
(* strictly increase from one read to the next, and the chunk a read       *)
(* appends to spectra_array is the chunk at its start, which no earlier    *)
(* read of the call appended.                                              *)
(***************************************************************************)
C11_ReadStep ==
    \* a successful read appends the chunk at its start and increments timestep
    /\ (pcScan = "try" /\ pcScan' = "while" /\ ~finished_scanning') =>
          /\ timestep' = timestep + 1
          /\ Len(spectra_array) < MaxSpectra =>
                spectra_array'[Len(spectra_array')] = Spectra(rand_filename, timestep)
    \* the read of the next pass is issued at the value the last read left
    /\ (pcScan = "while" /\ pcScan' = "try") => timestep' = timestep

C11_StartsIncrease == [][C11_ReadStep]_vars

(***************************************************************************)
(* roll on its own (simulated_NN.py 308-317): objects with longer time     *)
(* axes than SpecFRB tries, and the calls that set and shift the FRB.      *)
(***************************************************************************)
MaxRollChan == 1    \* largest shape[0] tried
MaxRollBins == 8    \* largest shape[1] tried
MaxRollWidth == 3   \* largest max_width tried

RollShapeItems == { <<c, b>> : c \in 0..MaxRollChan, b \in 0..MaxRollBins }

RollInit ==
    /\ ctorArgs \in [shape : [type : {"tuple"}, items : RollShapeItems],
                     max_width : 1..MaxRollWidth]
    /\ pcFRB = "new"
    /\ self = BlankObject
    /\ lastCall = NoCall
    /\ IdleScan /\ IdleCall /\ IdleLabels

RollNext == Construct \/ Scintillate \/ Roll

SpecRoll == RollInit /\ [][RollNext]_vars

\* the bin at which a pulse that had its peak at the centre bin now has it
PeakBin(frb) == (FloorHalf(frb.shape[2]) + frb.shift) % frb.shape[2]

RollReturned == lastCall.method = "roll" /\ lastCall.outcome = "returned"

(***************************************************************************)
(* C12: roll() shifts the FRB along the time axis by a bin_shift with      *)
(* -nt/2 + max_width <= bin_shift < nt/2 - max_width (nt = shape[1]), so a *)
(* pulse whose peak is at the centre bin ends at a bin inside [0, nt)      *)
(* without wrapping; the shape of self.FRB is unchanged by the shift.      *)
(***************************************************************************)
\* the claim as stated, nt/2 read as the exact half (both sides doubled)
C12_RollWithinHalves ==
    RollReturned =>
        LET nt == self.shape[2]
            bin_shift == lastCall.draws.bin_shift
        IN  /\ -nt + 2 * self.max_width <= 2 * bin_shift
            /\ 2 * bin_shift < nt - 2 * self.max_width
            /\ (nt \div 2) + bin_shift \in 0..(nt - 1)
            /\ self.FRB[1].shape = <<self.shape[1], nt>>

\* C12 as amended: the lower bound is (-nt) // 2 + max_width, which is
\* -ceil(nt/2) + max_width; roll returns exactly when nt > 2 * max_width (and the
\* pulse could be generated), and raises ValueError without a shift otherwise.
C12_RollInv ==
    LET nt == self.shape[2]
        bin_shift == lastCall.draws.bin_shift
    IN  /\ RollReturned =>
              /\ -((nt + 1) \div 2) + self.max_width <= bin_shift
              /\ bin_shift < (nt \div 2) - self.max_width
              /\ (nt \div 2) + bin_shift \in 0..(nt - 1)
              /\ self.FRB # <<>>
              /\ self.FRB[1].shape = <<self.shape[1], nt>>
        /\ lastCall.method = "roll" =>
              (lastCall.outcome = "returned" <=>
                  (nt > 2 * self.max_width /\ self.max_width > 1 /\ self.shape[1] > 0))

\* a roll of a pulse that has its peak at the centre bin moves the peak by
\* bin_shift bins, with no wrap, and leaves the shape of the FRB as it was
C12_RollStep ==
    (lastCall'.method = "roll" /\ lastCall'.outcome = "returned") =>
        /\ (self.FRB = <<>> \/ self.FRB[1].shift = 0) =>
              PeakBin(self'.FRB[1]) = (self.shape[2] \div 2) + lastCall'.draws.bin_shift
        /\ self.FRB # <<>> => self'.FRB[1].shape = self.FRB[1].shape

C12_RollBounds == []C12_RollInv /\ [][C12_RollStep]_vars

\* an odd time axis rolled by the lowest shift drawn, -ceil(7/2) + 2
C12_Witness ==
    /\ RollReturned
    /\ self.shape = <<1, 7>> /\ self.max_width = 2
    /\ lastCall.draws.bin_shift = -2
    /\ self.FRB[1].shift = 5
    /\ PeakBin(self.FRB[1]) = 1

(***************************************************************************)
(* C13: a SimulatedFRB keeps its SNR and FRB attributes as None from       *)
(* construction until they are generated, and after a call to injectFRB()  *)
(* self.SNR holds the SNR sampled for that injection and self.FRB holds    *)
(* the generated FRB: neither is None any more (stated of the calls that   *)
(* made all their draws).                                                  *)
(***************************************************************************)
C13_InjectSetsSNRAndFRB ==
    /\ (pcFRB = "constructed" /\ lastCall.method = "none") =>
          self.SNR = <<>> /\ self.FRB = <<>>
    /\ (lastCall.method = "injectFRB" /\ lastCall.draws.stch >= 0) =>
          /\ self.SNR # <<>>
          /\ self.FRB # <<>>

(***************************************************************************)
(* C14: in the main script of extract_spectra, spectra_samples only grows  *)
(* across successive fil2spec calls (the entries of earlier files are      *)
(* retained), the sampling loop exits only when len(spectra_samples) >=    *)
(* num_samples, and therefore the assertion of remove_extras never fails   *)
(* when the script reaches it and exactly num_samples spectra are saved.   *)
(***************************************************************************)
ReachedRemoveExtras == pcMain \in {"saved", "AssertionError", "NameError"}

C14_Inv ==
    /\ pcMain # "AssertionError"
    /\ ReachedRemoveExtras =>
          /\ pcMain = "saved"
          /\ saved # NotSaved
          /\ Len(saved[1]) = num_samples

C14_Step ==
    \* while the loop runs the list keeps what it holds
    /\ (pcMain \in {"loop", "fil2spec"} /\ pcMain' \in {"loop", "fil2spec"}) =>
          /\ Len(spectra_samples') >= Len(spectra_samples)
          /\ \A i \in 1..Len(spectra_samples) : spectra_samples'[i] = spectra_samples[i]
    \* the loop is left for remove_extras only with enough samples
    /\ (pcMain = "loop" /\ pcMain' \in {"saved", "AssertionError", "NameError"}) =>
          Len(spectra_samples) >= num_samples

C14_SamplingLoop == []C14_Inv /\ [][C14_Step]_vars

====
